---- MODULE Spec2Model ----
(***************************************************************************)
(* Model of curation/models.py (Article, Category) and curation/admin.py   *)
(* (summarize_selected_articles, CategoryAdmin).                           *)
(*                                                                         *)
(* A Python str is modelled as a sequence of text fragments whose          *)
(* concatenation is the string; the empty string is <<>>.  Fragment        *)
(* boundaries are placed so that the word "Error" is always a fragment of  *)
(* its own, so str.startswith and the `in` substring test are prefix and   *)
(* containment tests on fragments.  A whitespace character is the fragment *)
(* " " and the comma of an LLM answer is the fragment ",".                 *)
(***************************************************************************)
EXTENDS Integers, Sequences, FiniteSets, TLC

VARIABLES articles, article_categories, categories, api_key, last, bulk, messages,
          runs

vars == <<articles, article_categories, categories, api_key, last, bulk, messages, runs>>

\* ---------------------------------------------------------------- bounds

\* How many of AdminCategoryNames the admin may add through CategoryAdmin.
MaxAdminCategories == 2
\* Number of Article rows in the bulk-action specification.
NumBulkArticles == 2
\* Number of concurrent assign_categories calls, each on its own article.
NumConcurrentRuns == 2

\* ---------------------------------------------------------------- strings

EmptyStr == <<>>
IsWhitespace(f) == f = " "

\* str.startswith(prefix)
StartsWith(s, prefix) ==
    /\ Len(s) >= Len(prefix)
    /\ SubSeq(s, 1, Len(prefix)) = prefix

\* `word in s` for a word that is a fragment of its own
Contains(s, word) == \E i \in 1..Len(s) : s[i] = word

RECURSIVE LStrip(_)
LStrip(s) == IF s # <<>> /\ IsWhitespace(Head(s)) THEN LStrip(Tail(s)) ELSE s

RECURSIVE RStrip(_)
RStrip(s) ==
    IF s # <<>> /\ IsWhitespace(s[Len(s)]) THEN RStrip(SubSeq(s, 1, Len(s) - 1)) ELSE s

\* str.strip()
Strip(s) == RStrip(LStrip(s))

\* str.split(','): the parts between the "," fragments (always at least one part)
RECURSIVE SplitComma(_, _)
SplitComma(s, cur) ==
    IF s = <<>> THEN <<cur>>
    ELSE IF Head(s) = "," THEN <<cur>> \o SplitComma(Tail(s), <<>>)
    ELSE SplitComma(Tail(s), Append(cur, Head(s)))

\* ", ".join(names) for a sequence of names
RECURSIVE JoinNames(_)
JoinNames(names) ==
    IF names = <<>> THEN <<>>
    ELSE IF Len(names) = 1 THEN <<names[1]>>
    ELSE <<names[1], ", ">> \o JoinNames(Tail(names))

\* ---------------------------------------------------------------- Category

defined_category_names ==
    << "Web Development", "MLOps", "Large Language Models",
       "Data Science", "AI General", "Software Engineering", "Other" >>

Vocabulary == { defined_category_names[i] : i \in 1..Len(defined_category_names) }

\* Names an administrator may type into the Category admin form.
AdminCategoryNames == << "Quantum Computing", "web development", "Robotics" >>

AdminNames ==
    { AdminCategoryNames[i] :
        i \in 1..(IF MaxAdminCategories < Len(AdminCategoryNames)
                  THEN MaxAdminCategories ELSE Len(AdminCategoryNames)) }

\* django.utils.text.slugify on the names used: lower-case, spaces to hyphens
slugify(name) ==
    CASE name = "Web Development"       -> "web-development"
      [] name = "web development"       -> "web-development"
      [] name = "MLOps"                 -> "mlops"
      [] name = "Large Language Models" -> "large-language-models"
      [] name = "Data Science"          -> "data-science"
      [] name = "AI General"            -> "ai-general"
      [] name = "Software Engineering"  -> "software-engineering"
      [] name = "Other"                 -> "other"
      [] name = "Quantum Computing"     -> "quantum-computing"
      [] name = "Robotics"              -> "robotics"

\* Category.save(): the slug is derived from the name when blank
CategorySave(name) == [name |-> name, slug |-> slugify(name)]

CategoryNames(table) == { c.name : c \in table }

\* Category.name and Category.slug are unique=True
CategoryUnique(table) ==
    \A c, d \in table : (c.name = d.name \/ c.slug = d.slug) => c = d

\* Meta.ordering = ['name']: the vocabulary and admin names in name order
NameOrder ==
    << "AI General", "Data Science", "Large Language Models", "MLOps", "Other",
       "Quantum Computing", "Robotics", "Software Engineering", "Web Development",
       "web development" >>

\* a queryset's values_list('name', flat=True), in Meta.ordering
OrderedNames(names) == SelectSeq(NameOrder, LAMBDA n : n \in names)


\* one step of the get_or_create loop: SELECT by name, else INSERT; the INSERT
\* raises IntegrityError when another row already holds the derived slug
RECURSIVE EnsureCategories(_, _)
EnsureCategories(names, table) ==
    IF names = <<>> THEN [table |-> table, raised |-> FALSE]
    ELSE IF Head(names) \in CategoryNames(table)
         THEN EnsureCategories(Tail(names), table)
    ELSE IF \E c \in table : c.slug = slugify(Head(names))
         THEN [table |-> table, raised |-> TRUE]
    ELSE EnsureCategories(Tail(names), table \cup {CategorySave(Head(names))})

\* unique=True on name and slug: the INSERT of a name is accepted when no row
\* holds the name or the derived slug
Insertable(table, name) ==
    ~\E c \in table : c.name = name \/ c.slug = slugify(name)

\* get_or_create after its INSERT was refused, giving up without a second SELECT
get_or_create_refused_raising(table, name) == "raise"

\* get_or_create after its INSERT was refused: it SELECTs by name again and
\* returns the row another caller created, or lets the IntegrityError out
get_or_create_refused(table, name) ==
    IF name \in CategoryNames(table) THEN "found" ELSE "raise"

IntegrityError == <<"UNIQUE constraint failed: curation_category.slug">>

\* ---------------------------------------------------------------- Article

None == <<>>
Some(v) == <<v>>

\* A freshly constructed instance environment: the in-memory instance (self)
\* equals its row; cats is the article's rows of the many-to-many table.
World(row, cats, table) ==
    [self |-> row, row |-> row, cats |-> cats, table |-> table,
     calls |-> <<>>, saves |-> <<>>]

\* Model.save(update_fields=fields): only the named columns are written
Save(w, fields) ==
    [w EXCEPT
        !.row = [f \in DOMAIN w.row |->
                    IF f \in fields THEN w.self[f] ELSE w.row[f]],
        !.saves = Append(@, fields)]

Called(w, what) == [w EXCEPT !.calls = Append(@, what)]

\* outcome of a call that was not made
NotCalled == [kind |-> "not called"]

\* calculate_reading_time that adds the estimate to the minutes already stored
calculate_reading_time_adding(w, full_text, readtime) ==
    IF full_text # EmptyStr
    THEN LET w1 == Called(w, "readtime") IN
         IF readtime.kind = "result"
         THEN [w1 EXCEPT !.self.reading_time_minutes =
                  IF @ = None THEN Some(readtime.minutes)
                  ELSE Some(@[1] + readtime.minutes)]
         ELSE [w1 EXCEPT !.self.reading_time_minutes = None]
    ELSE [w EXCEPT !.self.reading_time_minutes = None]

\* calculate_reading_time that stores zero minutes for an empty text
calculate_reading_time_zero(w, full_text, readtime) ==
    IF full_text # EmptyStr
    THEN LET w1 == Called(w, "readtime") IN
         IF readtime.kind = "result"
         THEN [w1 EXCEPT !.self.reading_time_minutes = Some(readtime.minutes)]
         ELSE [w1 EXCEPT !.self.reading_time_minutes = None]
    ELSE [w EXCEPT !.self.reading_time_minutes = Some(0)]

\* Article.calculate_reading_time
calculate_reading_time(w, full_text, readtime) ==
    IF full_text # EmptyStr
    THEN LET w1 == Called(w, "readtime") IN
         IF readtime.kind = "result"
         THEN [w1 EXCEPT !.self.reading_time_minutes = Some(readtime.minutes)]
         ELSE [w1 EXCEPT !.self.reading_time_minutes = None]
    ELSE [w EXCEPT !.self.reading_time_minutes = None]

\* status texts of translate_summary_to_korean
NoSummaryToTranslate == <<"No summary to translate.">>
TranslateNoKey == <<"Error", ": OpenAI ", "API key", " not found.">>
TranslateOk == <<"Summary translated successfully using OpenAI.">>
TranslateError(msg) == <<"Error", " during OpenAI translation: ">> \o msg

\* translate_summary_to_korean that clears summary_ko on an exception without
\* saving it
translate_summary_to_korean_unsaved(w, key, resp) ==
    IF w.self.summary = EmptyStr
    THEN [w |-> [w EXCEPT !.self.summary_ko = EmptyStr],
          ret |-> NoSummaryToTranslate]
    ELSE IF key = EmptyStr
    THEN [w |-> w, ret |-> TranslateNoKey]
    ELSE LET w1 == Called(w, "translate") IN
         IF resp.kind = "result"
         THEN [w |-> Save([w1 EXCEPT !.self.summary_ko = Strip(resp.text)],
                          {"summary_ko", "updated_at"}),
               ret |-> TranslateOk]
         ELSE [w |-> [w1 EXCEPT !.self.summary_ko = EmptyStr],
               ret |-> TranslateError(resp.msg)]

\* Article.translate_summary_to_korean
translate_summary_to_korean(w, key, resp) ==
    IF w.self.summary = EmptyStr
    THEN [w |-> [w EXCEPT !.self.summary_ko = EmptyStr],
          ret |-> NoSummaryToTranslate]
    ELSE IF key = EmptyStr
    THEN [w |-> w, ret |-> TranslateNoKey]
    ELSE LET w1 == Called(w, "translate") IN
         IF resp.kind = "result"
         THEN [w |-> Save([w1 EXCEPT !.self.summary_ko = Strip(resp.text)],
                          {"summary_ko", "updated_at"}),
               ret |-> TranslateOk]
         ELSE [w |-> Save([w1 EXCEPT !.self.summary_ko = EmptyStr],
                          {"summary_ko", "updated_at"}),
               ret |-> TranslateError(resp.msg)]

\* status texts of assign_categories
CategorizeNoSummary == <<"Error", ": No summary available to categorize.">>
CategorizeNoKey == <<"Error", ": OpenAI ", "API key", " not found for categorization.">>
CategoriesSet(names) == <<"Article categories set to: ">> \o JoinNames(names) \o <<".">>
CategoryOther == <<"Article category set to: Other.">>
CategorizeWarning == <<"Warning", ": No valid categories assigned based on LLM response.">>
CategorizeError(msg) == <<"Error", " during categorization: ">> \o msg

\* [name.strip() for name in response_text.split(',') if name.strip()]
assigned_category_names(response_text) ==
    LET parts == SplitComma(Strip(response_text), <<>>)
        stripped == [i \in 1..Len(parts) |-> Strip(parts[i])]
    IN SelectSeq(stripped, LAMBDA p : p # EmptyStr)

\* valid_categories without the second filter on the defined names
valid_categories_unfiltered(table, assigned) ==
    { n \in CategoryNames(table) : \E i \in 1..Len(assigned) : assigned[i] = <<n>> }

\* Category.objects.filter(name__in=assigned).filter(name__in=defined)
valid_categories(table, assigned) ==
    { n \in CategoryNames(table) :
        /\ \E i \in 1..Len(assigned) : assigned[i] = <<n>>
        /\ n \in Vocabulary }

\* ReplaceCategories without the clear(): the new names are added to the old
MergeCategories(w, valid) == [w EXCEPT !.cats = @ \cup valid]

\* self.categories.clear() followed by self.categories.add(*valid_categories)
ReplaceCategories(w, valid) == [w EXCEPT !.cats = valid]

\* CategorizationFailed when clear() ran before the completion call
CategorizationFailedCleared(w, msg) ==
    [w |-> [w EXCEPT !.cats = {}], ret |-> CategorizeError(msg)]

\* the except clause of assign_categories: a status, the associations untouched
CategorizationFailed(w, msg) == [w |-> w, ret |-> CategorizeError(msg)]

\* Article.assign_categories
assign_categories(w, key, resp) ==
    IF w.self.summary = EmptyStr
    THEN [w |-> [w EXCEPT !.cats = {}], ret |-> CategorizeNoSummary]
    ELSE IF key = EmptyStr
    THEN [w |-> w, ret |-> CategorizeNoKey]
    ELSE LET ensured == EnsureCategories(defined_category_names, w.table)
             w1 == [w EXCEPT !.table = ensured.table]
         IN
         IF ensured.raised
         THEN CategorizationFailed(w1, IntegrityError)
         ELSE LET w2 == Called(w1, "categorize") IN
              IF resp.kind # "result"
              THEN CategorizationFailed(w2, resp.msg)
              ELSE LET assigned == assigned_category_names(resp.text)
                       valid == valid_categories(w2.table, assigned)
                   IN
                   IF valid # {}
                   THEN [w |-> ReplaceCategories(w2, valid),
                         ret |-> CategoriesSet(OrderedNames(valid))]
                   ELSE IF (\E i \in 1..Len(assigned) : assigned[i] = <<"Other">>)
                           /\ "Other" \in CategoryNames(w2.table)
                   THEN [w |-> ReplaceCategories(w2, {"Other"}),
                         ret |-> CategoryOther]
                   ELSE [w |-> ReplaceCategories(w2, {}), ret |-> CategorizeWarning]

\* status texts of fetch_and_summarize
ErrorNoUrl == <<"Error", ": No URL provided.">>
ErrorNoContent == <<"Error", ": No content could be loaded from the URL.">>
ErrorNoKey == <<"Error", ": OpenAI ", "API key", " not found. Title/Reading Time saved.">>
ErrorNoSummary == <<"Error", " extracting summary. Other details saved.">>
ErrorFetching(msg) == <<"Error", " fetching", " URL: ">> \o msg
ErrorLibraries(msg) == <<"Error", " with required libraries: ">> \o msg
UnexpectedError(msg) == <<"Unexpected error processing article: ">> \o msg
CategorizationSkipped == <<"Categorization skipped (no summary).">>

\* final_message of a run that reached the final save
FinalMessage(translation_status, categorization_status) ==
    <<"Fetch, Read Time, Summary completed.">>
    \o (IF Contains(translation_status, "Error")
        THEN <<" Translation failed.">> ELSE <<" Translation completed.">>)
    \o <<" ">> \o categorization_status

\* ExceptionHandler with the save of line 151 enabled for an unexpected error
ExceptionHandlerSaving(w, kind, msg) ==
    CASE kind = "RequestException" -> [w |-> w, ret |-> ErrorFetching(msg)]
      [] kind = "ImportError"      -> [w |-> w, ret |-> ErrorLibraries(msg)]
      [] OTHER ->
           [w |-> Save(w, {"title", "reading_time_minutes", "summary", "summary_ko",
                           "updated_at"}),
            ret |-> UnexpectedError(msg)]

\* ExceptionHandler that clears both summaries and saves, as the branch of an
\* empty summary does
ExceptionHandlerClearing(w, kind, msg) ==
    [w |-> Save([w EXCEPT !.self.summary = EmptyStr, !.self.summary_ko = EmptyStr],
                {"title", "summary", "summary_ko", "reading_time_minutes",
                 "updated_at"}),
     ret |-> CASE kind = "RequestException" -> ErrorFetching(msg)
               [] kind = "ImportError"      -> ErrorLibraries(msg)
               [] OTHER                     -> UnexpectedError(msg)]

\* the except clauses of fetch_and_summarize, by class of the exception raised:
\* each returns a status and saves nothing
ExceptionHandler(w, kind, msg) ==
    [w |-> w,
     ret |-> CASE kind = "RequestException" -> ErrorFetching(msg)
               [] kind = "ImportError"      -> ErrorLibraries(msg)
               [] OTHER                     -> UnexpectedError(msg)]

\* if not docs or not docs[0].page_content
NoContent(docs) == docs = <<>> \/ docs[1].page_content = EmptyStr

\* BackfillTitle that takes the loaded title whenever the page provides one
BackfillTitleAlways(w, doc) ==
    IF doc.title # EmptyStr THEN [w EXCEPT !.self.title = doc.title] ELSE w

\* title backfill: if not self.title and docs[0].metadata.get('title')
BackfillTitle(w, doc) ==
    IF w.self.title = EmptyStr /\ doc.title # EmptyStr
    THEN [w EXCEPT !.self.title = doc.title]
    ELSE w

\* MissingApiKey returning its status without the save
MissingApiKeyUnsaved(w) == [w |-> w, ret |-> ErrorNoKey]

\* if not api_key: save what we have
MissingApiKey(w) ==
    [w |-> Save(w, {"title", "reading_time_minutes", "updated_at"}),
     ret |-> ErrorNoKey]

\* MissingSummary that clears the summary but not its translation
MissingSummaryKeepsTranslation(w) ==
    [w |-> Save([w EXCEPT !.self.summary = EmptyStr],
                {"title", "summary", "summary_ko", "reading_time_minutes",
                 "updated_at"}),
     ret |-> ErrorNoSummary]

\* if not summary_text: clear both summaries and save
MissingSummary(w) ==
    [w |-> Save([w EXCEPT !.self.summary = EmptyStr, !.self.summary_ko = EmptyStr],
                {"title", "summary", "summary_ko", "reading_time_minutes",
                 "updated_at"}),
     ret |-> ErrorNoSummary]

\* CategorizeTranslateSave that gives up when the categorization reports an error
CategorizeThenStop(w, key, summary_text, in) ==
    LET w1 == [w EXCEPT !.self.summary = summary_text]
        cat == assign_categories(w1, key, in.categorize)
        tr == translate_summary_to_korean(cat.w, key, in.translate)
    IN IF Contains(cat.ret, "Error")
       THEN [w |-> cat.w, ret |-> cat.ret]
       ELSE [w |-> Save(tr.w, {"title", "summary", "summary_ko",
                               "reading_time_minutes", "updated_at"}),
             ret |-> FinalMessage(tr.ret, cat.ret)]

\* from `self.summary = summary_text` to the end: categorize, translate,
\* final save, final message
CategorizeTranslateSave(w, key, summary_text, in) ==
    LET w1 == [w EXCEPT !.self.summary = summary_text]
        cat == IF w1.self.summary # EmptyStr
               THEN assign_categories(w1, key, in.categorize)
               ELSE [w |-> w1, ret |-> CategorizationSkipped]
        tr == translate_summary_to_korean(cat.w, key, in.translate)
    IN [w |-> Save(tr.w, {"title", "summary", "summary_ko",
                          "reading_time_minutes", "updated_at"}),
        ret |-> FinalMessage(tr.ret, cat.ret)]

\* step 3 of fetch_and_summarize, after the API key was found
SummarizeStages(w, key, in) ==
    LET w1 == Called(w, "summarize") IN
    IF in.summarize.kind # "result"
    THEN ExceptionHandler(w1, "Exception", in.summarize.msg)
    ELSE IF in.summarize.output_text = EmptyStr
    THEN MissingSummary(w1)
    ELSE CategorizeTranslateSave(w1, key, in.summarize.output_text, in)

\* steps 1 and 2 of fetch_and_summarize, and the API key check
LoadStages(w, key, in) ==
    LET w1 == Called(w, "load") IN
    IF in.load.kind # "docs"
    THEN ExceptionHandler(w1, in.load.kind, in.load.msg)
    ELSE IF NoContent(in.load.docs)
    THEN [w |-> w1, ret |-> ErrorNoContent]
    ELSE LET doc == in.load.docs[1]
             w2 == calculate_reading_time(BackfillTitle(w1, doc),
                                          doc.page_content, in.readtime)
         IN IF key = EmptyStr
            THEN MissingApiKey(w2)
            ELSE SummarizeStages(w2, key, in)

\* fetch_and_summarize without the check of the url
fetch_and_summarize_unchecked(w, key, in) == LoadStages(w, key, in)

\* Article.fetch_and_summarize
fetch_and_summarize(w, key, in) ==
    IF w.self.url = EmptyStr
    THEN [w |-> w, ret |-> ErrorNoUrl]
    ELSE LoadStages(w, key, in)


\* ---------------------------------------------------------------- inputs

\* str(e) of the exceptions the collaborators raise
ConnectionMessage == <<"Connection refused">>
ProviderMessage == <<"Error", " code: 500">>

BodyText == <<"Body text of the page">>
LoadedTitle == <<"Loaded Title">>
OldTitle == <<"Old Title">>
SummaryX == <<"X">>

Document(page_content, title) == [page_content |-> page_content, title |-> title]

\* WebBaseLoader(url).load(): an exception, or a list of documents
LoadFailures ==
    { [kind |-> "RequestException", msg |-> m] : m \in {ConnectionMessage, ProviderMessage} }
    \cup { [kind |-> "ImportError", msg |-> <<"No module named 'bs4'">>],
           [kind |-> "Exception", msg |-> ProviderMessage],
           [kind |-> "docs", docs |-> <<>>],
           [kind |-> "docs", docs |-> <<Document(EmptyStr, LoadedTitle)>>] }

LoadSuccesses ==
    { [kind |-> "docs", docs |-> <<Document(BodyText, t)>>] : t \in {EmptyStr, LoadedTitle} }

\* readtime.of_text(full_text).minutes for BodyText, or an exception
ReadtimeOutcomes == { [kind |-> "raise"], [kind |-> "result", minutes |-> 1] }

\* chain_summarize.invoke(docs).get('output_text', ''), or an exception
SummarizeFailures ==
    { [kind |-> "raise", msg |-> ProviderMessage],
      [kind |-> "result", output_text |-> EmptyStr] }

SummarizeSuccesses ==
    { [kind |-> "result", output_text |-> t] : t \in {SummaryX} }

\* the categorization chain's answer, or an exception
CategorizeOutcomes ==
    { [kind |-> "raise", msg |-> ProviderMessage] }
    \cup { [kind |-> "result", text |-> t] :
             t \in { <<"MLOps", ",", " ", "Data Science", " ">>,
                     <<"Other">>,
                     <<" ", "Quantum Computing", ",">> } }

\* the answers drawn for a direct call of assign_categories
CategorizeAnswers == CategorizeOutcomes \cup { [kind |-> "result", text |-> <<>>] }

\* the translation chain's answer, or an exception
TranslateOutcomes ==
    { [kind |-> "raise", msg |-> ProviderMessage] }
    \cup { [kind |-> "result", text |-> t] :
             t \in { <<" ">>, <<" ", "Korean translation", " ">> } }

Inputs(load, readtime, summarize, categorize, translate) ==
    [load |-> load, readtime |-> readtime, summarize |-> summarize,
     categorize |-> categorize, translate |-> translate]

\* what the collaborators answer during one run; a collaborator the run cannot
\* reach has no answer
InputsFrom(LF, LS, R, SF, SS, C, T) ==
    { Inputs(l, NotCalled, NotCalled, NotCalled, NotCalled) : l \in LF }
    \cup { Inputs(l, r, s, NotCalled, NotCalled) : l \in LS, r \in R, s \in SF }
    \cup { Inputs(l, r, s, c, t) : l \in LS, r \in R, s \in SS, c \in C, t \in T }

RunInputs ==
    InputsFrom(LoadFailures, LoadSuccesses, ReadtimeOutcomes, SummarizeFailures,
               SummarizeSuccesses, CategorizeOutcomes, TranslateOutcomes)

\* the answers drawn for the runs of a bulk action
BulkInputs ==
    InputsFrom({ [kind |-> "RequestException", msg |-> ConnectionMessage],
                 [kind |-> "Exception", msg |-> ProviderMessage],
                 [kind |-> "docs", docs |-> <<>>] },
               { [kind |-> "docs", docs |-> <<Document(BodyText, LoadedTitle)>>] },
               { [kind |-> "result", minutes |-> 1] },
               SummarizeFailures, SummarizeSuccesses,
               { [kind |-> "raise", msg |-> ProviderMessage],
                 [kind |-> "result", text |-> <<"Other">>] },
               { [kind |-> "raise", msg |-> ProviderMessage],
                 [kind |-> "result", text |-> <<"Korean translation">>] })

\* the answers a run consumed, by the calls it made
Consumed(in, calls) ==
    [f \in DOMAIN in |->
        IF \E i \in 1..Len(calls) : calls[i] = f THEN in[f] ELSE NotCalled]

\* ---------------------------------------------------------------- state

Urls == << "https://a.example/post", "https://b.example/post", "https://c.example/post" >>

NewArticle(url, title) ==
    [url |-> url, title |-> title, summary |-> EmptyStr, summary_ko |-> EmptyStr,
     reading_time_minutes |-> None]

NoOperation == [op |-> "none"]

\* the loop state of summarize_selected_articles: the queryset, the articles
\* counted in success_count, the articles still to visit,
\* the articles visited, success_count and errors
IdleBulk ==
    [running |-> FALSE, queryset |-> <<>>, queue |-> <<>>, visited |-> <<>>,
     counted |-> <<>>, success_count |-> 0, errors |-> <<>>]

\* no concurrent calls of assign_categories
NoRuns == [call |-> <<>>, inserted |-> <<>>]

\* one Article row, created through the admin with or without a url and a title
Init ==
    /\ \E u \in {EmptyStr, <<Urls[1]>>}, t \in {EmptyStr, OldTitle} :
          articles = [id \in {1} |-> NewArticle(u, t)]
    /\ article_categories = [id \in {1} |-> {}]
    /\ categories = {}
    /\ api_key \in {EmptyStr, <<"sk-key">>}
    /\ last = NoOperation
    /\ bulk = IdleBulk
    /\ messages = <<>>
    /\ runs = NoRuns

\* the record of the last method call: the row and the associations before it,
\* what the collaborators answered, what it returned, what it left in memory,
\* the calls and the saves it made
Outcome(op, id, key, in, r) ==
    [op |-> op, id |-> id, key |-> key,
     pre_row |-> articles[id], pre_categories |-> article_categories[id],
     inputs |-> Consumed(in, r.w.calls),
     status |-> r.ret, self |-> r.w.self, calls |-> r.w.calls, saves |-> r.w.saves]

\* the effect of a method call on the database
Commit(op, id, in, r) ==
    /\ articles' = [articles EXCEPT ![id] = r.w.row]
    /\ article_categories' = [article_categories EXCEPT ![id] = r.w.cats]
    /\ categories' = r.w.table
    /\ last' = Outcome(op, id, api_key, in, r)

Instance(id) == World(articles[id], article_categories[id], categories)

\* ---------------------------------------------------------------- actions

FetchAndSummarize ==
    /\ ~bulk.running
    /\ \E id \in DOMAIN articles, in \in RunInputs :
          Commit("fetch_and_summarize", id, in,
                 fetch_and_summarize(Instance(id), api_key, in))
    /\ UNCHANGED <<runs, api_key, bulk, messages>>

TranslateSummaryToKorean ==
    /\ ~bulk.running
    /\ \E id \in DOMAIN articles, t \in TranslateOutcomes :
          LET in == Inputs(NotCalled, NotCalled, NotCalled, NotCalled, t) IN
          Commit("translate_summary_to_korean", id, in,
                 translate_summary_to_korean(Instance(id), api_key, t))
    /\ UNCHANGED <<runs, api_key, bulk, messages>>

AssignCategories ==
    /\ ~bulk.running
    /\ \E id \in DOMAIN articles, c \in CategorizeAnswers :
          LET in == Inputs(NotCalled, NotCalled, NotCalled, c, NotCalled) IN
          Commit("assign_categories", id, in,
                 assign_categories(Instance(id), api_key, c))
    /\ UNCHANGED <<runs, api_key, bulk, messages>>

\* CategoryAdmin: an administrator adds a Category; the unique constraints
\* on name and slug reject a duplicate
AdminAddCategory ==
    /\ ~bulk.running
    /\ \E name \in AdminNames :
          /\ CategoryUnique(categories \cup {CategorySave(name)})
          /\ CategorySave(name) \notin categories
          /\ categories' = categories \cup {CategorySave(name)}
    /\ last' = [op |-> "admin_add_category"]
    /\ UNCHANGED <<runs, articles, article_categories, api_key, bulk, messages>>

\* the process is restarted with or without OPENAI_API_KEY in its environment
\* calculate_reading_time is called on an article with a text, with an empty
\* one or with none (None and '' are both false for `if full_text`); it
\* changes the instance and saves nothing
CalculateReadingTime ==
    /\ ~bulk.running
    /\ \E id \in DOMAIN articles, full_text \in {EmptyStr, BodyText},
          readtime \in ReadtimeOutcomes :
          LET w == calculate_reading_time(Instance(id), full_text, readtime)
          IN last' = [op |-> "calculate_reading_time", id |-> id,
                      full_text |-> full_text,
                      readtime |-> IF w.calls = <<>> THEN NotCalled ELSE readtime,
                      pre_row |-> articles[id], self |-> w.self,
                      calls |-> w.calls, saves |-> w.saves]
    /\ UNCHANGED <<runs, articles, article_categories, categories, api_key, bulk,
                   messages>>

ConfigureEnvironment ==
    /\ ~bulk.running
    /\ \E k \in {EmptyStr, <<"sk-key">>} : k # api_key /\ api_key' = k
    /\ last' = [op |-> "configure_environment"]
    /\ UNCHANGED <<runs, articles, article_categories, categories, bulk, messages>>

\* the querysets an administrator can select: the rows in primary-key order
Selections ==
    LET ids == DOMAIN articles
        byId == [i \in 1..Cardinality(ids) |-> i]
    IN { SelectSeq(byId, LAMBDA i : i \in S) : S \in (SUBSET ids) \ {{}} }

\* summarize_selected_articles is invoked on a selection
BulkStart ==
    /\ ~bulk.running
    /\ \E q \in Selections :
          bulk' = [running |-> TRUE, queryset |-> q, queue |-> q, visited |-> <<>>,
                   counted |-> <<>>, success_count |-> 0, errors |-> <<>>]
    /\ messages' = <<>>
    /\ last' = NoOperation
    /\ UNCHANGED <<runs, articles, article_categories, categories, api_key>>

\* BulkStep that leaves the loop at the first error
BulkStepAborting ==
    /\ bulk.running
    /\ bulk.queue # <<>>
    /\ \E in \in BulkInputs :
          LET id == Head(bulk.queue)
              r == fetch_and_summarize(Instance(id), api_key, in)
          IN /\ Commit("fetch_and_summarize", id, in, r)
             /\ bulk' = IF StartsWith(r.ret, <<"Error">>)
                        THEN [bulk EXCEPT !.queue = <<>>,
                                          !.visited = Append(@, id),
                                          !.errors = Append(@, articles[id].url
                                                                \o <<": ">> \o r.ret)]
                        ELSE [bulk EXCEPT !.queue = Tail(@),
                                          !.visited = Append(@, id),
                                          !.counted = Append(@, id),
                                          !.success_count = @ + 1]
    /\ UNCHANGED <<runs, api_key, messages>>

\* one iteration of `for article in queryset`
BulkStep ==
    /\ bulk.running
    /\ bulk.queue # <<>>
    /\ \E in \in BulkInputs :
          LET id == Head(bulk.queue)
              r == fetch_and_summarize(Instance(id), api_key, in)
          IN /\ Commit("fetch_and_summarize", id, in, r)
             /\ bulk' = IF StartsWith(r.ret, <<"Error">>)
                        THEN [bulk EXCEPT !.queue = Tail(@),
                                          !.visited = Append(@, id),
                                          !.errors = Append(@, articles[id].url
                                                                \o <<": ">> \o r.ret)]
                        ELSE [bulk EXCEPT !.queue = Tail(@),
                                          !.visited = Append(@, id),
                                          !.counted = Append(@, id),
                                          !.success_count = @ + 1]
    /\ UNCHANGED <<runs, api_key, messages>>

SuccessMessage(n) ==
    [level |-> "SUCCESS",
     text |-> <<"Successfully processed ", ToString(n),
                " article(s) (fetch, summarize, translate).">>]

RECURSIVE JoinLines(_)
JoinLines(lines) ==
    IF lines = <<>> THEN <<>>
    ELSE IF Len(lines) = 1 THEN lines[1]
    ELSE lines[1] \o <<"\n">> \o JoinLines(Tail(lines))

WarningMessage(errors) ==
    [level |-> "WARNING", text |-> <<"Errors", " encountered:\n">> \o JoinLines(errors)]

\* the loop is over: message_user reports the count and the errors
BulkFinish ==
    /\ bulk.running
    /\ bulk.queue = <<>>
    /\ messages' = (IF bulk.success_count > 0
                     THEN <<SuccessMessage(bulk.success_count)>> ELSE <<>>)
                    \o (IF bulk.errors # <<>>
                        THEN <<WarningMessage(bulk.errors)>> ELSE <<>>)
    /\ bulk' = [bulk EXCEPT !.running = FALSE]
    /\ last' = [op |-> "summarize_selected_articles"]
    /\ UNCHANGED <<runs, articles, article_categories, categories, api_key>>

\* NumBulkArticles Article rows created through the admin, the first without
\* a title, the last possibly saved without a url
InitBulk ==
    /\ \E u \in {EmptyStr, <<Urls[NumBulkArticles]>>} :
          articles = [id \in 1..NumBulkArticles |->
                        NewArticle(IF id = NumBulkArticles THEN u ELSE <<Urls[id]>>,
                                   IF id = 1 THEN EmptyStr ELSE OldTitle)]
    /\ article_categories = [id \in 1..NumBulkArticles |-> {}]
    /\ categories = {}
    /\ api_key \in {EmptyStr, <<"sk-key">>}
    /\ last = NoOperation
    /\ bulk = IdleBulk
    /\ messages = <<>>
    /\ runs = NoRuns

\* ------------------------------------------- concurrent assign_categories

ConcurrentRuns == 1..NumConcurrentRuns

\* a call of assign_categories on a summarised article, at the head of its
\* get_or_create loop: the name it is at, whether it found a row after a
\* refused INSERT, whether an IntegrityError left the loop
StartedRun == [pc |-> "select", i |-> 1, recovered |-> FALSE, failed |-> FALSE]

NameAt(p) == defined_category_names[runs.call[p].i]

\* the loop moves to the next name, or to the completion call after the last
NextName(run) ==
    IF run.i = Len(defined_category_names)
    THEN [run EXCEPT !.pc = "categorize"]
    ELSE [run EXCEPT !.pc = "select", !.i = @ + 1]

\* the tables the calls may find: empty, holding one name of the vocabulary,
\* or holding an administrator's category with the slug of one
ConcurrentTables ==
    { {}, {CategorySave("MLOps")}, {CategorySave("web development")} }

ConcurrentAnswers ==
    { [kind |-> "raise", msg |-> ProviderMessage],
      [kind |-> "result", text |-> <<"MLOps", ",", " ", "Data Science", " ">>] }

\* NumConcurrentRuns summarised articles, an API key, and one call of
\* assign_categories started on each article; runs.inserted counts the rows
\* INSERTed under each name
InitConcurrent ==
    /\ articles = [id \in ConcurrentRuns |->
                     [NewArticle(<<Urls[id]>>, OldTitle) EXCEPT !.summary = SummaryX]]
    /\ article_categories = [id \in ConcurrentRuns |-> {}]
    /\ categories \in ConcurrentTables
    /\ api_key = <<"sk-key">>
    /\ last = NoOperation
    /\ bulk = IdleBulk
    /\ messages = <<>>
    /\ runs = [call |-> [p \in ConcurrentRuns |-> StartedRun],
               inserted |-> [n \in Vocabulary |-> 0]]

\* get_or_create, first SELECT by name
GetOrCreateSelect(p) ==
    /\ runs.call[p].pc = "select"
    /\ runs' = [runs EXCEPT !.call[p] = IF NameAt(p) \in CategoryNames(categories)
                                        THEN NextName(@)
                                        ELSE [@ EXCEPT !.pc = "insert"]]
    /\ UNCHANGED <<articles, article_categories, categories, api_key, last, bulk,
                   messages>>

\* get_or_create, INSERT through Category.save(); the cat.save() of a created
\* row rewrites the same name and slug
GetOrCreateInsert(p) ==
    /\ runs.call[p].pc = "insert"
    /\ IF Insertable(categories, NameAt(p))
       THEN /\ categories' = categories \cup {CategorySave(NameAt(p))}
            /\ runs' = [runs EXCEPT !.call[p] = NextName(@),
                                    !.inserted[NameAt(p)] = @ + 1]
       ELSE /\ categories' = categories
            /\ runs' = [runs EXCEPT !.call[p].pc = "refused"]
    /\ UNCHANGED <<articles, article_categories, api_key, last, bulk, messages>>

\* get_or_create, after the IntegrityError of its INSERT
GetOrCreateRefused(p) ==
    /\ runs.call[p].pc = "refused"
    /\ runs' = [runs EXCEPT !.call[p] =
                  IF get_or_create_refused(categories, NameAt(p)) = "found"
                  THEN NextName([@ EXCEPT !.recovered = TRUE])
                  ELSE [@ EXCEPT !.pc = "categorize", !.failed = TRUE]]
    /\ UNCHANGED <<articles, article_categories, categories, api_key, last, bulk,
                   messages>>

\* the rest of assign_categories: the completion call and the associations,
\* or the except clause when the loop raised
Categorize(p) ==
    /\ runs.call[p].pc = "categorize"
    /\ \E c \in ConcurrentAnswers :
          LET in == Inputs(NotCalled, NotCalled, NotCalled, c, NotCalled)
          IN Commit("assign_categories", p, in,
                    IF runs.call[p].failed
                    THEN CategorizationFailed(Instance(p), IntegrityError)
                    ELSE assign_categories(Instance(p), api_key, c))
    /\ runs' = [runs EXCEPT !.call[p].pc = "done"]
    /\ UNCHANGED <<api_key, bulk, messages>>

NextConcurrent ==
    \/ \E p \in ConcurrentRuns : GetOrCreateSelect(p)
    \/ \E p \in ConcurrentRuns : GetOrCreateInsert(p)
    \/ \E p \in ConcurrentRuns : GetOrCreateRefused(p)
    \/ \E p \in ConcurrentRuns : Categorize(p)

SpecConcurrent == InitConcurrent /\ [][NextConcurrent]_vars

NextBulk ==
    \/ BulkStart
    \/ BulkStep
    \/ BulkFinish

SpecBulk == InitBulk /\ [][NextBulk]_vars

Next ==
    \/ FetchAndSummarize
    \/ TranslateSummaryToKorean
    \/ AssignCategories
    \/ AdminAddCategory
    \/ ConfigureEnvironment
    \/ CalculateReadingTime

Spec == Init /\ [][Next]_vars


\* ---------------------------------------------------------------- claims

IsRun == last.op = "fetch_and_summarize"
IsAssign == last.op = "assign_categories"
IsTranslate == last.op = "translate_summary_to_korean"

\* the row and the associations of the article of the last call, after it
Row == articles[last.id]
Cats == article_categories[last.id]

Made(call) == \E i \in 1..Len(last.calls) : last.calls[i] = call

LoadRaised == last.inputs.load.kind \in {"RequestException", "ImportError", "Exception"}
LoadSucceeded == last.inputs.load.kind = "docs" /\ ~NoContent(last.inputs.load.docs)
LoadFailed ==
    \/ LoadRaised
    \/ last.inputs.load.kind = "docs" /\ NoContent(last.inputs.load.docs)

AllFields == {"title", "summary", "summary_ko", "reading_time_minutes", "updated_at"}

EndsWith(s, suffix) ==
    /\ Len(s) >= Len(suffix)
    /\ SubSeq(s, Len(s) - Len(suffix) + 1, Len(s)) = suffix

\* C1: every run whose load stage succeeded persists what it computed: it
\* saves, and the persisted title and reading time are the ones it computed;
\* only a failed load ends a run that reached the loader without a save.
C1_FailuresAfterLoadPersist ==
    (IsRun /\ LoadSucceeded) =>
        /\ last.saves # <<>>
        /\ Row.title = last.self.title
        /\ Row.reading_time_minutes = last.self.reading_time_minutes

\* C2: a run whose loader failed leaves the instance, the row and the
\* associations as they were and saves nothing.
C2_LoadFailureChangesNothing ==
    (IsRun /\ LoadFailed) =>
        /\ last.self = last.pre_row
        /\ Row = last.pre_row
        /\ Cats = last.pre_categories
        /\ last.saves = <<>>

\* C2 witness: an article that already has a summary and categories is run
\* again and the loader raises an unexpected exception.
C2_Witness ==
    /\ IsRun
    /\ last.inputs.load.kind = "Exception"
    /\ last.pre_row.summary = SummaryX
    /\ last.pre_categories # {}

\* C3: in a bulk action, a run whose loader raised returns a status that
\* starts with "Error fetching", leaves the row unchanged and is listed in
\* errors, not counted in success_count.
C3_FetchFailureIsAnError ==
    (IsRun /\ bulk.running /\ last.inputs.load.kind \in {"RequestException", "Exception"}) =>
        /\ StartsWith(last.status, <<"Error", " fetching">>)
        /\ Row = last.pre_row
        /\ bulk.errors # <<>>
        /\ bulk.errors[Len(bulk.errors)] = Row.url \o <<": ">> \o last.status
        /\ bulk.success_count + Len(bulk.errors) = Len(bulk.visited)

\* C4: a run that loaded the page but found no API key persists the title and
\* the reading time, leaves the persisted summary, translation and associations
\* as they were, calls no completion service and names the API key in its status.
C4_MissingKeySavesTitleAndReadingTime ==
    (IsRun /\ LoadSucceeded /\ last.key = EmptyStr) =>
        /\ Row.title = (IF last.pre_row.title = EmptyStr
                        THEN last.inputs.load.docs[1].title ELSE last.pre_row.title)
        /\ Row.reading_time_minutes =
              (IF last.inputs.readtime.kind = "result"
               THEN Some(last.inputs.readtime.minutes) ELSE None)
        /\ Row.summary = last.pre_row.summary
        /\ Row.summary_ko = last.pre_row.summary_ko
        /\ Cats = last.pre_categories
        /\ ~Made("summarize") /\ ~Made("categorize") /\ ~Made("translate")
        /\ StartsWith(last.status, <<"Error">>)
        /\ Contains(last.status, "API key")

\* C4 witness: an article with a summary and categories but no title is run
\* without an API key; the loaded title and the reading time are persisted.
C4_Witness ==
    /\ IsRun /\ LoadSucceeded /\ last.key = EmptyStr
    /\ last.pre_row.title = EmptyStr
    /\ Row.title = LoadedTitle
    /\ last.pre_row.reading_time_minutes = None
    /\ Row.reading_time_minutes = Some(1)
    /\ last.pre_row.summary = SummaryX
    /\ last.pre_categories # {}

\* C5: a run whose summary is empty after the summarize stage ends with an
\* empty summary_ko in memory and in the row, makes no categorization call and
\* leaves the associations as they were.
C5_EmptySummarySkipsCategorization ==
    (IsRun /\ Made("summarize") /\ last.self.summary = EmptyStr) =>
        /\ last.self.summary_ko = EmptyStr
        /\ Row.summary_ko = EmptyStr
        /\ ~Made("categorize")
        /\ Cats = last.pre_categories

\* C5 witness: an article with a translation and categories is run again and
\* the summarizer returns nothing.
C5_Witness ==
    /\ IsRun
    /\ last.inputs.summarize.kind = "result"
    /\ last.inputs.summarize.output_text = EmptyStr
    /\ last.pre_row.summary_ko # EmptyStr
    /\ last.pre_categories # {}

\* C6: every article's category set is a subset of the fixed vocabulary.
C6_CategoriesWithinVocabulary ==
    \A id \in DOMAIN articles : article_categories[id] \subseteq Vocabulary

\* C6 witness: the completion service names a category that exists in the
\* table but is outside the vocabulary, for an article that had categories.
C6_Witness ==
    /\ (IsRun \/ IsAssign)
    /\ Made("categorize")
    /\ last.inputs.categorize.kind = "result"
    /\ Contains(last.inputs.categorize.text, "Quantum Computing")
    /\ "Quantum Computing" \in CategoryNames(categories)
    /\ last.pre_categories # {}

\* C7: a categorization pass whose validated result is not empty leaves the
\* article associated with exactly that result, whatever it had before.
C7_CategoriesReplaced ==
    ((IsRun \/ IsAssign) /\ Made("categorize") /\ last.inputs.categorize.kind = "result") =>
        LET validated == valid_categories(categories,
                             assigned_category_names(last.inputs.categorize.text))
        IN validated # {} => Cats = validated

\* C7 witness: a pass with result {MLOps, Data Science} was followed by a pass
\* with result {Other}, which leaves exactly {Other}.
C7_Witness ==
    /\ (IsRun \/ IsAssign)
    /\ last.pre_categories = {"MLOps", "Data Science"}
    /\ last.inputs.categorize = [kind |-> "result", text |-> <<"Other">>]
    /\ Cats = {"Other"}

\* C8: when the completion call of assign_categories fails, the associations
\* are what they were before the call, and assign_categories returns the
\* categorization error status.
C8_FailedCallKeepsCategories ==
    ((IsRun \/ IsAssign) /\ Made("categorize") /\ last.inputs.categorize.kind = "raise") =>
        /\ Cats = last.pre_categories
        /\ IsAssign => last.status = <<"Error", " during categorization: ">>
                                        \o last.inputs.categorize.msg
        /\ IsRun => EndsWith(last.status, <<"Error", " during categorization: ">>
                                            \o last.inputs.categorize.msg)

\* C8 witness: assign_categories is called on an article that has categories
\* and the completion call raises.
C8_Witness ==
    /\ IsAssign
    /\ Made("categorize")
    /\ last.inputs.categorize.kind = "raise"
    /\ last.pre_categories = {"MLOps", "Data Science"}

\* C9: a run whose summarize stage produced a non-empty summary makes the
\* translation call last, whatever the categorization did, and ends with the
\* final save: the row holds the title, summary, summary_ko and reading time
\* of the instance.
C9_CategorizationNeverBlocks ==
    (IsRun /\ last.inputs.summarize.kind = "result"
           /\ last.inputs.summarize.output_text # EmptyStr) =>
        /\ last.calls # <<>> /\ last.calls[Len(last.calls)] = "translate"
        /\ last.saves # <<>> /\ last.saves[Len(last.saves)] = AllFields
        /\ Row.summary = last.inputs.summarize.output_text
        /\ Row.title = last.self.title
        /\ Row.summary_ko = last.self.summary_ko
        /\ Row.reading_time_minutes = last.self.reading_time_minutes

\* C9 witness: the categorization call raised and the run still persisted the
\* summary and a translation.
C9_Witness ==
    /\ IsRun
    /\ last.inputs.categorize.kind = "raise"
    /\ Row.summary = SummaryX
    /\ Row.summary_ko # EmptyStr

\* C10: after a call of translate_summary_to_korean that returned an error
\* status, or that found the summary empty, summary_ko is empty.
C10_FailedTranslationClears ==
    (IsTranslate /\ (StartsWith(last.status, <<"Error">>) \/ last.pre_row.summary = EmptyStr)) =>
        last.self.summary_ko = EmptyStr

\* C11: a run that starts with a non-empty title ends with the same title in
\* the instance and in the row.
C11_TitleNeverOverwritten ==
    (IsRun /\ last.pre_row.title # EmptyStr) =>
        /\ last.self.title = last.pre_row.title
        /\ Row.title = last.pre_row.title

\* C11 witness: an article with a title is run, the page provides another
\* title, and the run saves.
C11_Witness ==
    /\ IsRun /\ LoadSucceeded
    /\ last.pre_row.title = OldTitle
    /\ last.inputs.load.docs[1].title = LoadedTitle
    /\ last.saves # <<>>

\* the stage failures of the last run, by the answers it consumed
ReadtimeRaised == Made("readtime") /\ last.inputs.readtime.kind = "raise"
SummarizeRaised == Made("summarize") /\ last.inputs.summarize.kind = "raise"
SummarizeEmpty ==
    /\ Made("summarize") /\ last.inputs.summarize.kind = "result"
    /\ last.inputs.summarize.output_text = EmptyStr
CategorizeRaised == Made("categorize") /\ last.inputs.categorize.kind = "raise"
TranslateRaised == Made("translate") /\ last.inputs.translate.kind = "raise"
TranslateBlank ==
    /\ Made("translate") /\ last.inputs.translate.kind = "result"
    /\ Strip(last.inputs.translate.text) = EmptyStr

RunFailed ==
    \/ Made("load") /\ LoadFailed
    \/ Made("load") /\ LoadSucceeded /\ last.key = EmptyStr
    \/ ReadtimeRaised \/ SummarizeRaised \/ SummarizeEmpty
    \/ CategorizeRaised \/ TranslateRaised

\* C12 as stated: a run that fails at some stage empties no field that an
\* earlier run persisted with a value.
C12_FailedRunEmptiesNothing ==
    (IsRun /\ RunFailed) =>
        /\ last.pre_row.title # EmptyStr => Row.title # EmptyStr
        /\ last.pre_row.summary # EmptyStr => Row.summary # EmptyStr
        /\ last.pre_row.summary_ko # EmptyStr => Row.summary_ko # EmptyStr
        /\ last.pre_row.reading_time_minutes # None => Row.reading_time_minutes # None

\* C12: a run never empties a persisted title; it empties a persisted summary
\* only when its summarizer answers nothing, a persisted translation only when
\* its summarizer answers nothing or its translation raises or is blank, and a
\* persisted reading time only when its estimate raises.
C12_FieldsEmptiedOnlyByTheirStage ==
    IsRun =>
        /\ last.pre_row.title # EmptyStr => Row.title # EmptyStr
        /\ (last.pre_row.summary # EmptyStr /\ Row.summary = EmptyStr) => SummarizeEmpty
        /\ (last.pre_row.summary_ko # EmptyStr /\ Row.summary_ko = EmptyStr) =>
              (SummarizeEmpty \/ TranslateRaised \/ TranslateBlank)
        /\ (last.pre_row.reading_time_minutes # None /\ Row.reading_time_minutes = None) =>
              ReadtimeRaised

\* C12 witness: a run on an article holding a summary, a translation and a
\* reading time fails by an exception of its summarizer and the row keeps all
\* three.
C12_Witness ==
    /\ IsRun /\ SummarizeRaised
    /\ last.pre_row.summary # EmptyStr /\ Row.summary = last.pre_row.summary
    /\ last.pre_row.summary_ko # EmptyStr /\ Row.summary_ko = last.pre_row.summary_ko
    /\ last.pre_row.reading_time_minutes # None
    /\ Row.reading_time_minutes = last.pre_row.reading_time_minutes

\* the bulk action has returned
BulkDone == ~bulk.running /\ last.op = "summarize_selected_articles"

\* C13: the bulk action visits the articles of its queryset one after the
\* other, each once, whatever the earlier runs returned: the articles visited
\* and those still to visit always make up the queryset, every visited article
\* is counted in success_count or listed in errors, and when the action
\* returns every article of the queryset has been visited.
C13_EveryArticleProcessedOnce ==
    /\ bulk.visited \o bulk.queue = bulk.queryset
    /\ \A i, j \in 1..Len(bulk.visited) : bulk.visited[i] = bulk.visited[j] => i = j
    /\ bulk.success_count + Len(bulk.errors) = Len(bulk.visited)
    /\ BulkDone => bulk.visited = bulk.queryset

\* C13 witness: the action returns after a first article that ended in an
\* error and a second that was counted.
C13_Witness ==
    /\ BulkDone
    /\ Len(bulk.queryset) = NumBulkArticles
    /\ bulk.visited = bulk.queryset
    /\ bulk.errors # <<>>
    /\ StartsWith(bulk.errors[1], articles[bulk.queryset[1]].url)
    /\ bulk.success_count >= 1

\* the number of Category rows of a name: the rows the concurrent calls
\* INSERTed, or the row that was there before them
EntityCount(name) ==
    IF runs.inserted[name] > 0 THEN runs.inserted[name]
    ELSE IF name \in CategoryNames(categories) THEN 1 ELSE 0

\* a category of another name holds the slug of the name
SlugHeldByAnotherName(name) ==
    \E c \in categories : c.slug = slugify(name) /\ c.name # name

PastTheLoop(p) == runs.call[p].pc \in {"categorize", "done"}

\* C14: under every interleaving of concurrent assign_categories calls on
\* different articles, no name of the vocabulary ever has two Category rows and
\* names and slugs stay unique; a call whose get_or_create loop completed
\* leaves exactly one row for every name of the vocabulary; and a call fails in
\* the loop only on a slug held by a category of another name, never on a
\* category that another call created first.
C14_ConcurrentGetOrCreate ==
    /\ CategoryUnique(categories)
    /\ \A n \in DOMAIN runs.inserted : EntityCount(n) <= 1
    /\ \A p \in DOMAIN runs.call :
          /\ (PastTheLoop(p) /\ ~runs.call[p].failed)
             => \A n \in Vocabulary : EntityCount(n) = 1
          /\ runs.call[p].failed => SlugHeldByAnotherName(NameAt(p))
          /\ (runs.call[p].pc = "done" /\ last.op = "assign_categories" /\ last.id = p
                /\ ~SlugHeldByAnotherName(NameAt(p)))
             => last.status # CategorizeError(IntegrityError)

\* C14 witness: every call has returned without failing, one of them had an
\* INSERT refused for a row that another call created first, and every name
\* of the vocabulary has one row.
C14_Witness ==
    /\ DOMAIN runs.call # {}
    /\ \A p \in DOMAIN runs.call : runs.call[p].pc = "done" /\ ~runs.call[p].failed
    /\ \E p \in DOMAIN runs.call : runs.call[p].recovered
    /\ \E n \in Vocabulary : runs.inserted[n] = 1
    /\ \A n \in Vocabulary : EntityCount(n) = 1

\* every stage of the last run reported success: the page was loaded, the
\* summarizer answered SummaryX, the categorization set categories and the
\* translation reported "Translation completed."
AllStagesSucceeded ==
    /\ IsRun /\ LoadSucceeded
    /\ Made("summarize") /\ last.inputs.summarize = [kind |-> "result", output_text |-> SummaryX]
    /\ Made("categorize") /\ last.inputs.categorize.kind = "result"
    /\ ~EndsWith(last.status, CategorizeWarning)
    /\ Made("translate") /\ last.inputs.translate.kind = "result"
    /\ Contains(last.status, " Translation completed.")

\* C15: when fetch, summarize, translate and categorize all succeed with the
\* summary X, the row holds summary X and a non-empty summary_ko, the article
\* has a non-empty set of categories of the vocabulary, and the status does
\* not begin with "Error".
C15_FullSuccessPersistsEverything ==
    AllStagesSucceeded =>
        /\ Row.summary = SummaryX
        /\ Row.summary_ko # EmptyStr
        /\ Cats # {} /\ Cats \subseteq Vocabulary
        /\ ~StartsWith(last.status, <<"Error">>)

\* C16: a run on an article without a url returns the missing-url error at
\* once: it calls no loader and no completion service, changes no field of the
\* instance, saves nothing and leaves the row and the categories as they were.
C16_NoUrlIsRefusedAtOnce ==
    (IsRun /\ last.pre_row.url = EmptyStr) =>
        /\ last.status = ErrorNoUrl
        /\ last.calls = <<>>
        /\ last.saves = <<>>
        /\ last.self = last.pre_row
        /\ Row = last.pre_row
        /\ Cats = last.pre_categories

\* C16 witness: a run on a titled article without a url, with an API key set.
C16_Witness ==
    /\ IsRun
    /\ last.pre_row.url = EmptyStr
    /\ last.pre_row.title = OldTitle
    /\ last.key # EmptyStr

IsReadingTime == last.op = "calculate_reading_time"

\* C17 as stated: after calculate_reading_time(full_text) the reading time is
\* null when full_text is empty and a non-negative integer when it is not.
C17_ReadingTimeNullOnlyForEmptyText ==
    IsReadingTime =>
        /\ last.full_text = EmptyStr => last.self.reading_time_minutes = None
        /\ last.full_text # EmptyStr =>
              /\ last.self.reading_time_minutes # None
              /\ last.self.reading_time_minutes[1] >= 0

\* C17: after calculate_reading_time(full_text) the reading time is null when
\* full_text is empty, without a call of the estimator; for a non-empty text it
\* is the estimator's number of minutes, a non-negative integer, and null when
\* the estimator raises.
C17_ReadingTimeNullForEmptyTextOrFailure ==
    IsReadingTime =>
        /\ last.full_text = EmptyStr =>
              last.self.reading_time_minutes = None /\ last.calls = <<>>
        /\ (last.full_text # EmptyStr /\ last.readtime.kind = "result") =>
              /\ last.self.reading_time_minutes = Some(last.readtime.minutes)
              /\ last.self.reading_time_minutes[1] >= 0
        /\ (last.full_text # EmptyStr /\ last.readtime.kind = "raise") =>
              last.self.reading_time_minutes = None

\* C17 witness: the estimator raises on the text of an article that had a
\* reading time, and the instance's reading time is null.
C17_Witness ==
    /\ IsReadingTime
    /\ last.full_text = BodyText
    /\ last.readtime.kind = "raise"
    /\ last.pre_row.reading_time_minutes # None
    /\ last.self.reading_time_minutes = None

SavedTranslation == {"summary_ko", "updated_at"}

\* C18 as stated: every return of translate_summary_to_korean has saved
\* summary_ko, on the paths of an empty summary and of a missing API key too,
\* and leaves the row's summary_ko equal to the instance's.
C18_TranslationSavedOnEveryPath ==
    IsTranslate =>
        /\ Row.summary_ko = last.self.summary_ko
        /\ last.saves # <<>>
        /\ \A i \in 1..Len(last.saves) : "summary_ko" \in last.saves[i]

\* C18: every return of translate_summary_to_korean on an instance loaded from
\* its row leaves the row's summary_ko equal to the instance's; the method
\* saves summary_ko itself exactly when it made the translation call (success
\* or service failure), inside a run before the final save, and saves nothing
\* on the paths of an empty summary and of a missing API key.
C18_TranslationSavedWhenCalled ==
    /\ IsTranslate =>
          /\ Row.summary_ko = last.self.summary_ko
          /\ last.saves = (IF Made("translate") THEN <<SavedTranslation>> ELSE <<>>)
          /\ (last.pre_row.summary = EmptyStr \/ last.key = EmptyStr) => ~Made("translate")
    /\ (IsRun /\ Made("translate")) =>
          /\ Row.summary_ko = last.self.summary_ko
          /\ \E i \in 1..(Len(last.saves) - 1) : last.saves[i] = SavedTranslation

\* C18 witness: a direct call on an article holding a translation fails at the
\* service; the translation is cleared in the instance and in the row.
C18_Witness ==
    /\ IsTranslate
    /\ last.inputs.translate.kind = "raise"
    /\ last.pre_row.summary_ko # EmptyStr
    /\ last.self.summary_ko = EmptyStr
    /\ Row.summary_ko = EmptyStr

\* the last run of the bulk action was counted in success_count
LastRunCounted ==
    /\ IsRun /\ bulk.visited # <<>> /\ bulk.counted # <<>>
    /\ bulk.visited[Len(bulk.visited)] = last.id
    /\ bulk.counted[Len(bulk.counted)] = last.id

\* C19: the bulk action counts a run in success_count only if the run reached
\* its final save; a run that ended earlier, an unexpected exception of a
\* stage included, is listed in errors.
C19_CountedOnlyAfterFinalSave ==
    LastRunCounted =>
        /\ StartsWith(last.status, <<"Fetch, Read Time, Summary completed.">>)
        /\ last.saves # <<>>
        /\ last.saves[Len(last.saves)] = AllFields

\* the same run once more: fetch_and_summarize on the article of the last run
\* as it is now, with the same API key and the same answers
SecondRun == fetch_and_summarize(Instance(last.id), last.key, last.inputs)

\* C20: running fetch_and_summarize a second time with the same collaborator
\* answers leaves the row (title, summary, summary_ko, reading time) and the
\* category set as the first run left them, and returns the same status.
C20_SecondRunChangesNothing ==
    IsRun =>
        /\ SecondRun.w.row = Row
        /\ SecondRun.w.cats = Cats
        /\ SecondRun.w.table = categories
        /\ SecondRun.ret = last.status

\* C20 witness: a first run that changed the title, the summaries, the reading
\* time and the categories of its article.
C20_Witness ==
    /\ IsRun
    /\ last.pre_row.title = EmptyStr /\ Row.title # EmptyStr
    /\ last.pre_row.summary = EmptyStr /\ Row.summary # EmptyStr
    /\ Row.summary_ko # EmptyStr
    /\ Row.reading_time_minutes # None
    /\ last.pre_categories = {} /\ Cats # {}

====
